---------------------------- MODULE Spec2Model ----------------------------
(***************************************************************************)
(* A model of the usbip client crate: the detach flow of detach.rs         *)
(* (validate, detach_port), the header validation OpCommon::validate and   *)
(* the import request of attach::query_import_device of lib.rs.            *)
(*                                                                         *)
(* The VHCI driver (usbip_core::vhci::Driver), the file system and the     *)
(* socket are external: each call into them is one step whose outcome is   *)
(* chosen nondeterministically among the outcomes the callee can produce.  *)
(***************************************************************************)
EXTENDS Integers, Sequences, FiniteSets, TLC

VARIABLES
    \* ---- detach flow (detach.rs) ----
    vhci,        \* the kernel's port table: a sequence of ImportedDevice
    stateFiles,  \* the ports whose file STATE_PATH/port<N> exists
    stateDir,    \* whether the directory STATE_PATH exists
    pc,          \* per invocation of detach_port: the statement it is at
    arg,         \* per invocation: the `port` argument
    snapshot,    \* per invocation: what driver.imported_devices() returned
    result,      \* per invocation: the value detach_port returned
    trace,       \* per invocation: the external calls it made, in order
    \* ---- header validation (lib.rs, OpCommon::validate) ----
    header,      \* the OpCommon being validated
    expected,    \* the `code` argument
    validated,   \* the value validate returned
    \* ---- attach flow (lib.rs, attach::query_import_device) ----
    apc,         \* the statement query_import_device is at
    bus_id,      \* its `bus_id` argument, a sequence of bytes
    request,     \* the OpImportRequest it constructed, if any
    wire,        \* what has been written to the socket, in order
    inbound,     \* what the remote sends back on the socket
    outcome,     \* how query_import_device ended
    \* ---- transport setup (lib.rs, net::connect) ----
    cpc,         \* the statement connect is at
    addrs,       \* the addresses `host` resolves to: whether each accepts
    sock,        \* the socket connect opened and its two options
    connection,  \* the value connect returned
    \* ---- devlist flow (the exchange of OP_REQ_DEVLIST) ----
    lpc,         \* the step the devlist flow is at
    lstream,     \* what the remote sends back, item by item
    lreads,      \* the number of items read from the socket
    listed,      \* the value the devlist flow returned
    \* ---- wire codec (lib.rs, net::Send and net::Recv) ----
    wpc,         \* the call the owner of the stream makes next
    cvalue,      \* the structure given to send
    ctrail,      \* the bytes that follow it in the stream
    cstream,     \* the bytes in the stream, unread
    creceived    \* the value recv returned

detachVars == <<vhci, stateFiles, stateDir, pc, arg, snapshot, result, trace>>
headerVars == <<header, expected, validated>>
attachVars == <<apc, bus_id, request, wire, inbound, outcome>>
connectVars == <<cpc, addrs, sock, connection>>
devlistVars == <<lpc, lstream, lreads, listed>>
codecVars == <<wpc, cvalue, ctrail, cstream, creceived>>
netVars == <<connectVars, devlistVars, codecVars>>
vars == <<detachVars, headerVars, attachVars, netVars>>

-----------------------------------------------------------------------------
(* Bounds of the model *)

\* Port numbers range over 0..MaxPort (a u8 in the code).
MaxPort == 2
\* The port table holds at most MaxLen entries.
MaxLen == 2

PortIds == 0..MaxPort

\* The two invocations of detach_port that may run at the same time.
Procs == {"a", "b"}

-----------------------------------------------------------------------------
(* usbip_core::DeviceStatus: PortAvailable is the variant detach.rs names;  *)
(* the other two stand for the variants of an occupied port.               *)
DeviceStatus == {"PortAvailable", "PortInUse", "PortError"}

ImportedDevice == [port : PortIds, status : DeviceStatus]

\* The port tables the detach flow runs against: a port is a slot of the
\* controller, listed at most once, and the slots are listed in ascending
\* order.  A driver that lists every slot reports the tables among these
\* whose i-th entry is slot i - 1; the tables with slots left out show what
\* validate does with a table of any other shape.
PortTables ==
    {t \in UNION {[1..n -> ImportedDevice] : n \in 0..MaxLen} :
        \A i, j \in DOMAIN t : i < j => t[i].port < t[j].port}

-----------------------------------------------------------------------------
(* detach.rs: Error and the results of detach_port *)

NoResult == [tag |-> "None"]
Ok == [tag |-> "Ok"]
InvalidPort(requested, num_ports) ==
    [tag |-> "InvalidPort", requested |-> requested, num_ports |-> num_ports]
PortAlreadyDetached(requested) ==
    [tag |-> "PortAlreadyDetached", requested |-> requested]
DriverError(op) == [tag |-> "DriverError", op |-> op]

\* One external call: the operation, its port argument (or -1), its outcome.
Call(op, port, ok) == [op |-> op, port |-> port, ok |-> ok]

\* Iterator::find: the index of the first entry of idevs whose port is
\* `port`, or 0 when there is none.
Find(port, idevs) ==
    LET hits == {i \in DOMAIN idevs : idevs[i].port = port}
    IN  IF hits = {} THEN 0
        ELSE CHOOSE i \in hits : \A j \in hits : i <= j

\* A validate that takes the length after the scan (what is left of the
\* iterator once find has consumed the entries it looked at).
validate_LenAfterScan(port, idevs) ==
    LET i == Find(port, idevs)
    IN  IF i = 0 THEN InvalidPort(port, 0)
        ELSE IF idevs[i].status = "PortAvailable"
             THEN PortAlreadyDetached(port)
             ELSE Ok

\* A validate that accepts only a port in use.
validate_OnlyInUse(port, idevs) ==
    LET num_ports == Len(idevs)
        i == Find(port, idevs)
    IN  IF i = 0 THEN InvalidPort(port, num_ports)
        ELSE IF idevs[i].status # "PortInUse"
             THEN PortAlreadyDetached(port)
             ELSE Ok

\* A validate that tests the range the way the error message words it
\* ("Invalid port {requested} > maxports ({num_ports})") before it looks for
\* the entry.
validate_GreaterThanMaxports(port, idevs) ==
    LET num_ports == Len(idevs)
        i == Find(port, idevs)
    IN  IF port > num_ports THEN InvalidPort(port, num_ports)
        ELSE IF i = 0 \/ idevs[i].status = "PortAvailable"
             THEN PortAlreadyDetached(port)
             ELSE Ok

\* fn validate(port, idevs) -> Result<(), Error>
validate(port, idevs) ==
    LET num_ports == Len(idevs)
        i == Find(port, idevs)
    IN  IF i = 0 THEN InvalidPort(port, num_ports)
        ELSE IF idevs[i].status = "PortAvailable"
             THEN PortAlreadyDetached(port)
             ELSE Ok


-----------------------------------------------------------------------------
(* detach.rs: detach_port, one step per call into the driver or the file   *)
(* system.  The statements between two calls are local and belong to the   *)
(* step of the call they follow.                                            *)

Returns(self, r) ==
    /\ result' = [result EXCEPT ![self] = r]
    /\ pc' = [pc EXCEPT ![self] = "done"]

Goes(self, label) ==
    /\ pc' = [pc EXCEPT ![self] = label]
    /\ UNCHANGED result

Calls(self, op, port, ok) ==
    trace' = [trace EXCEPT ![self] = Append(@, Call(op, port, ok))]

\* The open with its error dropped: the flow goes on without a driver.
try_open_ErrorDropped(self) ==
    /\ pc[self] = "open"
    /\ \E ok \in BOOLEAN :
        /\ Calls(self, "try_open", -1, ok)
        /\ Goes(self, "validate")
    /\ UNCHANGED <<vhci, stateFiles, stateDir, arg, snapshot, headerVars, attachVars, netVars>>

\* let driver = vhci::Driver::try_open()?;
try_open(self) ==
    /\ pc[self] = "open"
    /\ \E ok \in BOOLEAN :
        /\ Calls(self, "try_open", -1, ok)
        /\ IF ok THEN Goes(self, "validate")
                 ELSE Returns(self, DriverError("try_open"))
    /\ UNCHANGED <<vhci, stateFiles, stateDir, arg, snapshot, headerVars, attachVars, netVars>>

\* The two lines with the error of validate dropped instead of returned.
imported_devices_ErrorDropped(self) ==
    /\ pc[self] = "validate"
    /\ snapshot' = [snapshot EXCEPT ![self] = vhci]
    /\ Calls(self, "imported_devices", -1, TRUE)
    /\ Goes(self, "remove_file")
    /\ UNCHANGED <<vhci, stateFiles, stateDir, arg, headerVars, attachVars, netVars>>

\* let imported_devices = driver.imported_devices();
\* validate(port, imported_devices)?;
imported_devices(self) ==
    /\ pc[self] = "validate"
    /\ snapshot' = [snapshot EXCEPT ![self] = vhci]
    /\ Calls(self, "imported_devices", -1, TRUE)
    /\ LET v == validate(arg[self], vhci)
       IN  IF v = Ok THEN Goes(self, "remove_file")
                     ELSE Returns(self, v)
    /\ UNCHANGED <<vhci, stateFiles, stateDir, arg, headerVars, attachVars, netVars>>

\* fs::remove_file succeeds only on a file that exists, and may fail on one
\* that does (permissions, I/O).
RemoveFileOutcomes(port) ==
    IF port \in stateFiles THEN BOOLEAN ELSE {FALSE}

\* fs::remove_dir succeeds only on a directory that exists and is empty.
RemoveDirOutcomes ==
    IF stateDir /\ stateFiles = {} THEN BOOLEAN ELSE {FALSE}

\* The removal with its error returned (`?`) instead of dropped (`let _`).
remove_file_ErrorReturned(self) ==
    /\ pc[self] = "remove_file"
    /\ \E ok \in RemoveFileOutcomes(arg[self]) :
        /\ Calls(self, "remove_file", arg[self], ok)
        /\ stateFiles' = IF ok THEN stateFiles \ {arg[self]} ELSE stateFiles
        /\ IF ok THEN Goes(self, "remove_dir")
                 ELSE Returns(self, DriverError("remove_file"))
    /\ UNCHANGED <<vhci, stateDir, arg, snapshot, headerVars, attachVars, netVars>>

\* The cleanup left for after the detach: nothing is removed at this point.
remove_file_Deferred(self) ==
    /\ pc[self] = "remove_file"
    /\ Goes(self, "detach")
    /\ UNCHANGED <<vhci, stateFiles, stateDir, arg, snapshot, trace, headerVars, attachVars, netVars>>

\* let path = PathBuf::from(format!("{}/port{}", vhci::STATE_PATH, port));
\* let _ = fs::remove_file(path);
remove_file(self) ==
    /\ pc[self] = "remove_file"
    /\ \E ok \in RemoveFileOutcomes(arg[self]) :
        /\ Calls(self, "remove_file", arg[self], ok)
        /\ stateFiles' = IF ok THEN stateFiles \ {arg[self]} ELSE stateFiles
    /\ Goes(self, "remove_dir")
    /\ UNCHANGED <<vhci, stateDir, arg, snapshot, headerVars, attachVars, netVars>>

\* let _ = fs::remove_dir(vhci::STATE_PATH);
remove_dir(self) ==
    /\ pc[self] = "remove_dir"
    /\ \E ok \in RemoveDirOutcomes :
        /\ Calls(self, "remove_dir", -1, ok)
        /\ stateDir' = IF ok THEN FALSE ELSE stateDir
    /\ Goes(self, "detach")
    /\ UNCHANGED <<vhci, stateFiles, arg, snapshot, headerVars, attachVars, netVars>>

\* The driver releases an occupied port, or rejects the request; it rejects
\* a request for a port that is available or that it does not have.
DetachOutcomes(port) ==
    LET i == Find(port, vhci)
    IN  IF i # 0 /\ vhci[i].status # "PortAvailable" THEN BOOLEAN ELSE {FALSE}

Released(port) ==
    [i \in DOMAIN vhci |->
        IF vhci[i].port = port
        THEN [vhci[i] EXCEPT !.status = "PortAvailable"]
        ELSE vhci[i]]

\* The detach tried again once after the driver rejected it.
try_detach_dev_Retried(self) ==
    /\ pc[self] = "detach"
    /\ \E ok \in DetachOutcomes(arg[self]) :
        /\ Calls(self, "try_detach_dev", arg[self], ok)
        /\ vhci' = IF ok THEN Released(arg[self]) ELSE vhci
        /\ IF ok THEN Returns(self, Ok)
           ELSE IF \E k \in DOMAIN trace[self] :
                       trace[self][k].op = "try_detach_dev"
                THEN Returns(self, DriverError("try_detach_dev"))
                ELSE Goes(self, "detach")
    /\ UNCHANGED <<stateFiles, stateDir, arg, snapshot, headerVars, attachVars, netVars>>

\* The detach with its error dropped (`let _ =`, as for the two removals).
try_detach_dev_ErrorDropped(self) ==
    /\ pc[self] = "detach"
    /\ \E ok \in DetachOutcomes(arg[self]) :
        /\ Calls(self, "try_detach_dev", arg[self], ok)
        /\ vhci' = IF ok THEN Released(arg[self]) ELSE vhci
        /\ Returns(self, Ok)
    /\ UNCHANGED <<stateFiles, stateDir, arg, snapshot, headerVars, attachVars, netVars>>

\* The detach held back until the port is occupied in the driver's table: a
\* lock on the port state between the invocations.
try_detach_dev_Guarded(self) ==
    /\ pc[self] = "detach"
    /\ DetachOutcomes(arg[self]) # {FALSE}
    /\ \E ok \in DetachOutcomes(arg[self]) :
        /\ Calls(self, "try_detach_dev", arg[self], ok)
        /\ vhci' = IF ok THEN Released(arg[self]) ELSE vhci
        /\ IF ok THEN Returns(self, Ok)
                 ELSE Returns(self, DriverError("try_detach_dev"))
    /\ UNCHANGED <<stateFiles, stateDir, arg, snapshot, headerVars, attachVars, netVars>>

\* driver.try_detach_dev(port).map_err(std::convert::Into::into)
try_detach_dev(self) ==
    /\ pc[self] = "detach"
    /\ \E ok \in DetachOutcomes(arg[self]) :
        /\ Calls(self, "try_detach_dev", arg[self], ok)
        /\ vhci' = IF ok THEN Released(arg[self]) ELSE vhci
        /\ IF ok THEN Returns(self, Ok)
                 ELSE Returns(self, DriverError("try_detach_dev"))
    /\ UNCHANGED <<stateFiles, stateDir, arg, snapshot, headerVars, attachVars, netVars>>

\* pub fn detach_port(port: u8) -> Result<(), Box<dyn StdError>>
detach_port(self) ==
    \/ try_open(self)
    \/ imported_devices(self)
    \/ remove_file(self)
    \/ remove_dir(self)
    \/ try_detach_dev(self)

\* Two invocations are about to start, each with any port, against any port
\* table.  State files may exist for the requested ports (a file of another
\* port only keeps the directory from being empty, as a file of the other
\* invocation's port does).
InitDetach ==
    /\ vhci \in PortTables
    /\ arg \in [Procs -> PortIds]
    /\ stateDir \in BOOLEAN
    /\ stateFiles \in (IF stateDir THEN SUBSET {arg[self] : self \in Procs}
                                   ELSE {{}})
    /\ pc = [self \in Procs |-> "open"]
    /\ snapshot = [self \in Procs |-> <<>>]
    /\ result = [self \in Procs |-> NoResult]
    /\ trace = [self \in Procs |-> <<>>]

-----------------------------------------------------------------------------
(* lib.rs: mod protocol *)

\* The bitwise or of two naturals (`|` on u16).
RECURSIVE BitOr(_, _)
BitOr(a, b) ==
    IF a = 0 THEN b
    ELSE IF b = 0 THEN a
    ELSE 2 * BitOr(a \div 2, b \div 2)
         + (IF a % 2 = 1 \/ b % 2 = 1 THEN 1 ELSE 0)

OP_REQUEST == 128 * 256
OP_REPLY == 0 * 256
OP_IMPORT == 3
OP_REQ_IMPORT == BitOr(OP_REQUEST, OP_IMPORT)
OP_REP_IMPORT == BitOr(OP_REPLY, OP_IMPORT)
OP_UNSPEC == 0
OP_DEVLIST == 5
OP_REQ_DEVLIST == BitOr(OP_REQUEST, OP_DEVLIST)
\* The reply code built with the request flag.
OP_REP_DEVLIST_RequestFlag == BitOr(OP_REQUEST, OP_DEVLIST)
OP_REP_DEVLIST == BitOr(OP_REPLY, OP_DEVLIST)
OP_EXPORT == 6
OP_REQ_EXPORT == BitOr(OP_REQUEST, OP_EXPORT)
OP_REP_EXPORT == BitOr(OP_REPLY, OP_EXPORT)

\* The codes a header or an expectation is drawn from.
Codes ==
    {OP_UNSPEC, OP_REQ_IMPORT, OP_REP_IMPORT, OP_REQ_DEVLIST, OP_REP_DEVLIST,
     OP_REQ_EXPORT, OP_REP_EXPORT}

-----------------------------------------------------------------------------
(* lib.rs: mod net, OpCommon and OpCommon::validate *)

VERSION == 273

\* Versions are drawn from VERSION - VersionSpread .. VERSION + VersionSpread.
VersionSpread == 1
Versions == (VERSION - VersionSpread)..(VERSION + VersionSpread)

\* usbip_core::net::Status
Status == {"Success", "Failed", "DevBusy", "DevErr", "NoDev", "Unexpected"}

OpCommon == [version : Versions, code : Codes, status : Status]

OkStatus(status) == [tag |-> "Ok", status |-> status]
VersionMismatch(version) == [tag |-> "VersionMismatch", version |-> version]

\* A validate that compares the codes before the versions.
OpCommon_validate_CodeFirst(self, code) ==
    IF code # OP_UNSPEC /\ code # self.code THEN OkStatus("Unexpected")
    ELSE IF self.version # VERSION THEN VersionMismatch(self.version)
    ELSE OkStatus(self.status)

\* A validate that never compares the codes.
OpCommon_validate_NoCodeCheck(self, code) ==
    IF self.version # VERSION THEN VersionMismatch(self.version)
    ELSE OkStatus(self.status)

\* A validate that treats OP_UNSPEC as a code like any other.
OpCommon_validate_NoWildcard(self, code) ==
    IF self.version # VERSION THEN VersionMismatch(self.version)
    ELSE IF code # self.code THEN OkStatus("Unexpected")
    ELSE OkStatus(self.status)

\* pub fn validate(&self, code: u16) -> Result<Status, Error>
OpCommon_validate(self, code) ==
    IF self.version # VERSION THEN VersionMismatch(self.version)
    ELSE IF ~(code = OP_UNSPEC) /\ code # self.code THEN OkStatus("Unexpected")
    ELSE OkStatus(self.status)

\* One call of header.validate(expected).
Validate ==
    /\ validated = NoResult
    /\ validated' = OpCommon_validate(header, expected)
    /\ UNCHANGED <<header, expected, detachVars, attachVars, netVars>>

InitHeader ==
    /\ header \in OpCommon
    /\ expected \in Codes
    /\ validated = NoResult

-----------------------------------------------------------------------------
(* lib.rs: mod attach, query_import_device *)

\* usbip_core::SYSFS_BUS_ID_SIZE, the capacity of the bus id buffer.
SYSFS_BUS_ID_SIZE == 32

\* The bus ids a caller passes: "1-1", "1-2", and one of every length from
\* the empty one to one byte over the capacity.
Repeat(byte, n) == [i \in 1..n |-> byte]
BusIds ==
    {<<49, 45, 49>>, <<49, 45, 50>>}
        \cup {Repeat(49, n) : n \in 0..(SYSFS_BUS_ID_SIZE + 1)}

\* u8 as i8
AsI8(byte) == IF byte >= 128 THEN byte - 256 ELSE byte

NoRequest == [tag |-> "None"]
Overflow == [tag |-> "Overflow"]
OpImportRequest(buffer) == [tag |-> "OpImportRequest", bus_id |-> buffer]

\* Buffer::<SYSFS_BUS_ID_SIZE, i8>::try_from(bytes): the bytes followed by
\* zeros up to the capacity, or an error when they do not fit.
Buffer_try_from(bytes) ==
    IF Len(bytes) > SYSFS_BUS_ID_SIZE THEN Overflow
    ELSE OpImportRequest(
            [i \in 1..SYSFS_BUS_ID_SIZE |->
                IF i <= Len(bytes) THEN AsI8(bytes[i]) ELSE 0])

\* What a remote answers to an import request: an OpCommon header and, in
\* the OpImportReply after it, the bus id of the device it exported.
ImportReply(status, busid) ==
    [header |-> [version |-> VERSION, code |-> OP_REP_IMPORT,
                 status |-> status],
     bus_id |-> busid]

Remotes ==
    {ImportReply("Success", <<49, 45, 49>>),
     ImportReply("Success", <<49, 45, 50>>),
     ImportReply("NoDev", <<>>)}

\* What one socket.send(&value) can do to the stream: write the whole value,
\* fail having written nothing, or fail having written a part of it.
SendOutcomes == {"sent", "failed", "failed_partway"}

Message(value, how) == [value |-> value, complete |-> how = "sent"]

Sent(value, how) ==
    wire' = IF how = "failed" THEN wire ELSE Append(wire, Message(value, how))

\* The header sent with the error of the send dropped instead of returned.
send_header_ErrorDropped ==
    /\ apc = "send_header"
    /\ \E how \in SendOutcomes :
        Sent([version |-> VERSION, code |-> OP_REQ_IMPORT,
              status |-> "Success"], how)
    /\ apc' = "make_request"
    /\ UNCHANGED <<bus_id, inbound, request, outcome, detachVars, headerVars, netVars>>

\* let request = net::OpCommon { version, code: OP_REQ_IMPORT, status: Success };
\* socket.send(&request)?;
send_header ==
    /\ apc = "send_header"
    /\ \E how \in SendOutcomes :
        /\ Sent([version |-> VERSION, code |-> OP_REQ_IMPORT,
                 status |-> "Success"], how)
        /\ IF how = "sent"
           THEN apc' = "make_request" /\ UNCHANGED outcome
           ELSE apc' = "done" /\ outcome' = "Err"
    /\ UNCHANGED <<bus_id, inbound, request, detachVars, headerVars, netVars>>

\* let request = net::OpImportRequest {
\*     bus_id: Buffer::try_from(bus_id.as_bytes()).unwrap() };
make_request ==
    /\ apc = "make_request"
    /\ request' = Buffer_try_from(bus_id)
    /\ IF request' = Overflow
       THEN apc' = "done" /\ outcome' = "panic"
       ELSE apc' = "send_request" /\ UNCHANGED outcome
    /\ UNCHANGED <<bus_id, inbound, wire, detachVars, headerVars, netVars>>

\* socket.send(&request)?;
send_request ==
    /\ apc = "send_request"
    /\ \E how \in SendOutcomes :
        /\ Sent(request, how)
        /\ IF how = "sent"
           THEN apc' = "todo" /\ UNCHANGED outcome
           ELSE apc' = "done" /\ outcome' = "Err"
    /\ UNCHANGED <<bus_id, inbound, request, detachVars, headerVars, netVars>>

\* todo!()
todo ==
    /\ apc = "todo"
    /\ apc' = "done"
    /\ outcome' = "panic"
    /\ UNCHANGED <<bus_id, inbound, request, wire, detachVars, headerVars, netVars>>

\* fn query_import_device<S>(mut socket: S, bus_id: &str) -> bincode::Result<u16>
query_import_device ==
    \/ send_header
    \/ make_request
    \/ send_request
    \/ todo

InitAttach ==
    /\ apc = "send_header"
    /\ bus_id \in BusIds
    /\ inbound \in Remotes
    /\ request = NoRequest
    /\ wire = <<>>
    /\ outcome = "running"

-----------------------------------------------------------------------------
(* lib.rs: mod net, socket_set_keepalive and connect *)

\* `host` resolves to at most MaxAddrs addresses.
MaxAddrs == 4

\* What `host` resolves to: for each address, whether a connection to it is
\* accepted.
Hosts == UNION {[1..n -> BOOLEAN] : n \in 0..MaxAddrs}

NoSocket == [tag |-> "None"]
\* A TcpStream as the system opens it: neither option is set.
TcpStream(peer) ==
    [tag |-> "TcpStream", peer |-> peer, nodelay |-> FALSE,
     keepalive |-> FALSE]

OkSocket(socket) == [tag |-> "Ok", socket |-> socket]
IoError(kind) == [tag |-> "Err", error |-> kind]

\* The errors of TcpStream::connect and of setting an option.
ConnectErrors == {"ConnectionRefused", "TimedOut"}
OptionErrors == {"EBADF", "ENOPROTOOPT"}

\* let socket = std::net::TcpStream::connect(host)?;
\* The stream is connected to the first address that accepts.
connect_stream ==
    /\ cpc = "connect"
    /\ LET accepting == {i \in DOMAIN addrs : addrs[i]}
       IN  IF accepting = {}
           THEN /\ \E e \in (IF addrs = <<>> THEN {"InvalidInput"}
                                             ELSE ConnectErrors) :
                       connection' = IoError(e)
                /\ cpc' = "done"
                /\ UNCHANGED sock
           ELSE /\ sock' = TcpStream(CHOOSE i \in accepting :
                                        \A j \in accepting : i <= j)
                /\ cpc' = "set_nodelay"
                /\ UNCHANGED connection
    /\ UNCHANGED <<addrs, detachVars, headerVars, attachVars, devlistVars, codecVars>>

\* socket.set_nodelay(true)?;
set_nodelay ==
    /\ cpc = "set_nodelay"
    /\ \/ /\ sock' = [sock EXCEPT !.nodelay = TRUE]
          /\ cpc' = "set_keepalive"
          /\ UNCHANGED connection
       \/ /\ \E e \in OptionErrors : connection' = IoError(e)
          /\ cpc' = "done"
          /\ UNCHANGED sock
    /\ UNCHANGED <<addrs, detachVars, headerVars, attachVars, devlistVars, codecVars>>

\* c_int::from(keepalive)
c_int_from(b) == IF b THEN 1 ELSE 0

\* A socket_set_keepalive that takes a negative rc for success.
socket_set_keepalive_result_SignInverted(rc, errno) ==
    IF rc > 0 THEN IoError(errno) ELSE Ok

\* if rc < 0 { Err(io::Error::last_os_error()) } else { Ok(()) }
socket_set_keepalive_result(rc, errno) ==
    IF rc < 0 THEN IoError(errno) ELSE Ok

\* socket_set_keepalive(&socket, true)?;  Ok(socket)
\* setsockopt returns 0 having set SO_KEEPALIVE to val, or -1 with errno set.
set_keepalive ==
    /\ cpc = "set_keepalive"
    /\ \E rc \in {-1, 0}, errno \in OptionErrors :
        LET val == c_int_from(TRUE)
            set == IF rc = 0 THEN [sock EXCEPT !.keepalive = (val # 0)]
                             ELSE sock
            r == socket_set_keepalive_result(rc, errno)
        IN  /\ sock' = set
            /\ connection' = IF r = Ok THEN OkSocket(set) ELSE r
    /\ cpc' = "done"
    /\ UNCHANGED <<addrs, detachVars, headerVars, attachVars, devlistVars, codecVars>>

\* pub fn connect<A>(host: A) -> io::Result<std::net::TcpStream>
connect ==
    \/ connect_stream
    \/ set_nodelay
    \/ set_keepalive

InitConnect ==
    /\ cpc = "connect"
    /\ addrs \in Hosts
    /\ sock = NoSocket
    /\ connection = NoResult

-----------------------------------------------------------------------------
(* The devlist flow.  lib.rs holds its codes (OP_REQ_DEVLIST,               *)
(* OP_REP_DEVLIST), its header validation (OpCommon::validate) and its      *)
(* reply structure (OpDevlistReply); the exchange itself is the one of the  *)
(* design: send the request header, read a header, validate it against     *)
(* OP_REP_DEVLIST, on success read the device count and as many device      *)
(* descriptors.                                                             *)

\* A remote announces at most MaxDevs devices.
MaxDevs == 2

Item(kind, value) == [kind |-> kind, value |-> value]

\* The headers a remote answers with: of this version or the one before, with
\* code 0x0005, 0x8005 or 0x0003, claiming success or not.
DevlistHeaders ==
    [version : {VERSION - 1, VERSION},
     code : {BitOr(0, OP_DEVLIST), BitOr(OP_REQUEST, OP_DEVLIST),
             BitOr(0, OP_IMPORT)},
     status : {"Success", "Failed"}]

\* The first n device descriptors, each standing for one UsbDevice.
Descriptors(n) == [i \in 1..n |-> Item("UsbDevice", i)]

\* What a remote sends back: a header, a device count, and descriptors, as
\* many as announced or fewer or one more.
DevlistRemotes ==
    {<<Item("OpCommon", h), Item("OpDevlistReply", [ndev |-> n])>>
            \o Descriptors(k) :
        h \in DevlistHeaders, n \in 0..MaxDevs, k \in 0..(MaxDevs + 1)}

OkList(devices) == [tag |-> "Ok", devices |-> devices]
StatusError(status) == [tag |-> "Status", status |-> status]

\* Send OpCommon { VERSION, OP_REQ_DEVLIST, Success }.
devlist_send ==
    /\ lpc = "send"
    /\ \/ /\ lpc' = "recv_header"
          /\ UNCHANGED listed
       \/ /\ lpc' = "done"
          /\ listed' = IoError("BrokenPipe")
    /\ UNCHANGED <<lstream, lreads, detachVars, headerVars, attachVars, connectVars, codecVars>>

\* Read the reply header and validate it against OP_REP_DEVLIST.
devlist_recv_header ==
    /\ lpc = "recv_header"
    /\ lreads' = 1
    /\ LET v == OpCommon_validate(lstream[1].value, OP_REP_DEVLIST)
       IN  IF v.tag = "VersionMismatch"
           THEN lpc' = "done" /\ listed' = v
           ELSE IF v.status # "Success"
           THEN lpc' = "done" /\ listed' = StatusError(v.status)
           ELSE lpc' = "recv_count" /\ UNCHANGED listed
    /\ UNCHANGED <<lstream, detachVars, headerVars, attachVars, connectVars, codecVars>>

\* Read the OpDevlistReply.
devlist_recv_count ==
    /\ lpc = "recv_count"
    /\ lreads' = 2
    /\ IF lstream[2].value.ndev = 0
       THEN lpc' = "done" /\ listed' = OkList(<<>>)
       ELSE lpc' = "recv_device" /\ UNCHANGED listed
    /\ UNCHANGED <<lstream, detachVars, headerVars, attachVars, connectVars, codecVars>>

\* Read one device descriptor; the last one completes the list.
devlist_recv_device ==
    /\ lpc = "recv_device"
    /\ IF lreads + 1 > Len(lstream)
       THEN /\ lpc' = "done"
            /\ listed' = IoError("UnexpectedEof")
            /\ UNCHANGED lreads
       ELSE /\ lreads' = lreads + 1
            /\ IF lreads' = 2 + lstream[2].value.ndev
               THEN /\ lpc' = "done"
                    /\ listed' = OkList([i \in 1..(lreads' - 2) |->
                                            lstream[i + 2].value])
               ELSE UNCHANGED <<lpc, listed>>
    /\ UNCHANGED <<lstream, detachVars, headerVars, attachVars, connectVars, codecVars>>

listRemoteDevices ==
    \/ devlist_send
    \/ devlist_recv_header
    \/ devlist_recv_count
    \/ devlist_recv_device

InitDevlist ==
    /\ lpc = "send"
    /\ lstream \in DevlistRemotes
    /\ lreads = 0
    /\ listed = NoResult

-----------------------------------------------------------------------------
(* lib.rs: mod net, bincode_options, Send and Recv.  A structure is written *)
(* field by field in declaration order, with no tag and no length; how an   *)
(* integer is written is a matter of the options.                           *)

\* bincode::DefaultOptions::new(): no limit, little endian, varint, trailing
\* bytes rejected.
DefaultOptions ==
    [limit |-> "none", endian |-> "little", int |-> "varint",
     trailing |-> "reject"]

\* The options without .with_big_endian().
bincode_options_NoBigEndian ==
    [DefaultOptions EXCEPT !.limit = "none", !.int = "fixint",
                           !.trailing = "allow"]

bincode_options ==
    [DefaultOptions EXCEPT !.limit = "none", !.endian = "big",
                           !.int = "fixint", !.trailing = "allow"]

Take(bytes, n) == SubSeq(bytes, 1, n)
Drop(bytes, n) == SubSeq(bytes, n + 1, Len(bytes))

\* The result of reading one value: the value and the bytes after it, or the
\* error.
Read(value, rest) == [ok |-> TRUE, value |-> value, rest |-> rest]
Bad(kind) == [ok |-> FALSE, error |-> kind]

\* An unsigned integer in `width` bytes, in the byte order of the options.
fixint(options, width, v) ==
    [i \in 1..width |->
        IF options.endian = "big"
        THEN (v \div (256 ^ (width - i))) % 256
        ELSE (v \div (256 ^ (i - 1))) % 256]

RECURSIVE from_fixint(_, _)
from_fixint(options, bytes) ==
    IF bytes = <<>> THEN 0
    ELSE IF options.endian = "big"
    THEN from_fixint(options, Take(bytes, Len(bytes) - 1)) * 256
            + bytes[Len(bytes)]
    ELSE bytes[1] + 256 * from_fixint(options, Drop(bytes, 1))

\* serialize_u16 / serialize_u32: fixint writes the width of the type; varint
\* writes one byte below 251, else a marker byte and the smallest of u16, u32
\* that holds the value.
serialize_u(options, width, v) ==
    IF options.int = "fixint" THEN fixint(options, width, v)
    ELSE IF v < 251 THEN <<v>>
    ELSE IF v < 65536 THEN <<251>> \o fixint(options, 2, v)
    ELSE <<252>> \o fixint(options, 4, v)

deserialize_fixint(options, width, bytes) ==
    IF Len(bytes) < width THEN Bad("UnexpectedEof")
    ELSE Read(from_fixint(options, Take(bytes, width)), Drop(bytes, width))

deserialize_u(options, width, bytes) ==
    IF options.int = "fixint" THEN deserialize_fixint(options, width, bytes)
    ELSE IF bytes = <<>> THEN Bad("UnexpectedEof")
    ELSE IF bytes[1] < 251 THEN Read(bytes[1], Drop(bytes, 1))
    ELSE IF bytes[1] = 251 THEN deserialize_fixint(options, 2, Drop(bytes, 1))
    ELSE IF bytes[1] = 252 /\ width >= 4
    THEN deserialize_fixint(options, 4, Drop(bytes, 1))
    ELSE Bad("InvalidCast")

\* usbip_core::net::Status on the wire: a 16-bit code, 0 for Success.
StatusVariants ==
    <<"Success", "Failed", "DevBusy", "DevErr", "NoDev", "Unexpected">>

serialize_Status(options, status) ==
    serialize_u(options, 2,
                (CHOOSE i \in 1..Len(StatusVariants) :
                    StatusVariants[i] = status) - 1)

deserialize_Status(options, bytes) ==
    LET r == deserialize_u(options, 2, bytes)
    IN  IF ~r.ok THEN r
        ELSE IF r.value >= Len(StatusVariants) THEN Bad("InvalidVariant")
        ELSE Read(StatusVariants[r.value + 1], r.rest)

\* Buffer<SYSFS_BUS_ID_SIZE, i8>: its elements, one byte each.
serialize_Buffer(buffer) == [i \in 1..SYSFS_BUS_ID_SIZE |-> buffer[i] % 256]

deserialize_Buffer(bytes) ==
    IF Len(bytes) < SYSFS_BUS_ID_SIZE THEN Bad("UnexpectedEof")
    ELSE Read([i \in 1..SYSFS_BUS_ID_SIZE |-> AsI8(bytes[i])],
              Drop(bytes, SYSFS_BUS_ID_SIZE))

\* usbip_core::UsbDevice, with its bus id and one field of each width.
UsbDevice(busid, speed, idVendor, bNumInterfaces) ==
    [busid |-> busid, speed |-> speed, idVendor |-> idVendor,
     bNumInterfaces |-> bNumInterfaces]

serialize_UsbDevice(options, udev) ==
    serialize_Buffer(udev.busid)
        \o serialize_u(options, 4, udev.speed)
        \o serialize_u(options, 2, udev.idVendor)
        \o <<udev.bNumInterfaces>>

deserialize_UsbDevice(options, bytes) ==
    LET b == deserialize_Buffer(bytes)
        s == deserialize_u(options, 4, b.rest)
        v == deserialize_u(options, 2, s.rest)
    IN  IF ~b.ok THEN b
        ELSE IF ~s.ok THEN s
        ELSE IF ~v.ok THEN v
        ELSE IF v.rest = <<>> THEN Bad("UnexpectedEof")
        ELSE Read(UsbDevice(b.value, s.value, v.value, v.rest[1]),
                  Drop(v.rest, 1))

\* The four structures of lib.rs, each with the name of its type.
Typed(type, body) == [type |-> type, body |-> body]

\* #[derive(Serialize)]: the fields in the order of their declaration.
Serialize(options, value) ==
    CASE value.type = "OpCommon" ->
            serialize_u(options, 2, value.body.version)
                \o serialize_u(options, 2, value.body.code)
                \o serialize_Status(options, value.body.status)
      [] value.type = "OpImportRequest" ->
            serialize_Buffer(value.body.bus_id)
      [] value.type = "OpImportReply" ->
            serialize_UsbDevice(options, value.body.udev)
      [] value.type = "OpDevlistReply" ->
            serialize_u(options, 4, value.body.ndev)

deserialize_OpCommon(options, bytes) ==
    LET v == deserialize_u(options, 2, bytes)
        c == deserialize_u(options, 2, v.rest)
        s == deserialize_Status(options, c.rest)
    IN  IF ~v.ok THEN v
        ELSE IF ~c.ok THEN c
        ELSE IF ~s.ok THEN s
        ELSE Read(Typed("OpCommon",
                        [version |-> v.value, code |-> c.value,
                         status |-> s.value]),
                  s.rest)

\* #[derive(Deserialize)]: the fields of T read one after the other.
Deserialize(options, type, bytes) ==
    CASE type = "OpCommon" -> deserialize_OpCommon(options, bytes)
      [] type = "OpImportRequest" ->
            LET b == deserialize_Buffer(bytes)
            IN  IF ~b.ok THEN b
                ELSE Read(Typed(type, OpImportRequest(b.value)), b.rest)
      [] type = "OpImportReply" ->
            LET u == deserialize_UsbDevice(options, bytes)
            IN  IF ~u.ok THEN u
                ELSE Read(Typed(type, [udev |-> u.value]), u.rest)
      [] type = "OpDevlistReply" ->
            LET n == deserialize_u(options, 4, bytes)
            IN  IF ~n.ok THEN n
                ELSE Read(Typed(type, [ndev |-> n.value]), n.rest)

\* The values sent: headers of two versions and two codes with every status,
\* device counts of one to four significant bytes, bus ids that are empty,
\* short, full and with a byte above 127, and devices made of these.
Buffers ==
    {Buffer_try_from(b).bus_id :
        b \in {<<>>, <<49, 45, 49>>, <<200, 45>>,
               Repeat(49, SYSFS_BUS_ID_SIZE)}}

Structures ==
    {Typed("OpCommon", h) :
        h \in [version : {1, VERSION}, code : {OP_REP_IMPORT, OP_REQ_DEVLIST},
               status : Status]}
    \cup {Typed("OpImportRequest", OpImportRequest(b)) : b \in Buffers}
    \cup {Typed("OpImportReply", [udev |-> UsbDevice(b, s, v, n)]) :
            b \in {Buffer_try_from(<<49, 45, 49>>).bus_id,
                   Buffer_try_from(<<200, 45>>).bus_id},
            s \in {3, 16909060}, v \in {7531, 65535}, n \in {1, 255}}
    \cup {Typed("OpDevlistReply", [ndev |-> n]) :
            n \in {0, 2, 16909060, 2147483647}}

\* The bytes that whoever writes the stream writes after the structure.
Following == {<<>>, <<7>>, <<1, 17, 0, 5>>}

OkValue(value) == [tag |-> "Ok", value |-> value]

\* stream.send(&value): the bytes of the value reach the stream, or the
\* write fails.
send ==
    /\ wpc = "send"
    /\ \/ /\ cstream' = cstream \o Serialize(bincode_options, cvalue)
          /\ wpc' = "write"
          /\ UNCHANGED creceived
       \/ /\ creceived' = IoError("BrokenPipe")
          /\ wpc' = "done"
          /\ UNCHANGED cstream
    /\ UNCHANGED <<cvalue, ctrail, detachVars, headerVars, attachVars, connectVars, devlistVars>>

\* The bytes of what is sent next reach the stream.
write_following ==
    /\ wpc = "write"
    /\ cstream' = cstream \o ctrail
    /\ wpc' = "recv"
    /\ UNCHANGED <<cvalue, ctrail, creceived, detachVars, headerVars, attachVars, connectVars, devlistVars>>

\* stream.recv::<T>() for the T that was sent: the value read and the stream
\* after it.  A read that fails leaves the stream where the failure was; the
\* model leaves it whole.
recv ==
    /\ wpc = "recv"
    /\ LET r == Deserialize(bincode_options, cvalue.type, cstream)
       IN  IF r.ok
           THEN creceived' = OkValue(r.value) /\ cstream' = r.rest
           ELSE creceived' = IoError(r.error) /\ UNCHANGED cstream
    /\ wpc' = "done"
    /\ UNCHANGED <<cvalue, ctrail, detachVars, headerVars, attachVars, connectVars, devlistVars>>

InitCodec ==
    /\ wpc = "send"
    /\ cvalue \in Structures
    /\ ctrail \in Following
    /\ cstream = <<>>
    /\ creceived = NoResult

-----------------------------------------------------------------------------
(* The specifications.  Each runs one part of the crate and holds the      *)
(* variables of the other parts at rest.                                    *)

IdleDetach ==
    /\ vhci = <<>>
    /\ stateDir = FALSE
    /\ stateFiles = {}
    /\ pc = [self \in Procs |-> "idle"]
    /\ arg = [self \in Procs |-> 0]
    /\ snapshot = [self \in Procs |-> <<>>]
    /\ result = [self \in Procs |-> NoResult]
    /\ trace = [self \in Procs |-> <<>>]

IdleHeader ==
    /\ header = [version |-> VERSION, code |-> OP_UNSPEC, status |-> "Success"]
    /\ expected = OP_UNSPEC
    /\ validated = OkStatus("Success")

IdleAttach ==
    /\ apc = "idle"
    /\ bus_id = <<>>
    /\ inbound = ImportReply("NoDev", <<>>)
    /\ request = NoRequest
    /\ wire = <<>>
    /\ outcome = "running"

IdleConnect ==
    /\ cpc = "idle"
    /\ addrs = <<>>
    /\ sock = NoSocket
    /\ connection = NoResult

IdleDevlist ==
    /\ lpc = "idle"
    /\ lstream = <<>>
    /\ lreads = 0
    /\ listed = NoResult

IdleCodec ==
    /\ wpc = "idle"
    /\ cvalue = NoResult
    /\ ctrail = <<>>
    /\ cstream = <<>>
    /\ creceived = NoResult

\* The detach flow: two invocations of detach_port against one driver.
Init == InitDetach /\ IdleHeader /\ IdleAttach
            /\ IdleConnect /\ IdleDevlist /\ IdleCodec
Next == \E self \in Procs : detach_port(self)
Spec == Init /\ [][Next]_vars

\* Header validation: one header, one expected code, one call.
InitValidate == IdleDetach /\ InitHeader /\ IdleAttach
                    /\ IdleConnect /\ IdleDevlist /\ IdleCodec
NextValidate == Validate
SpecValidate == InitValidate /\ [][NextValidate]_vars

\* The attach flow: one call of query_import_device.
InitQuery == IdleDetach /\ IdleHeader /\ InitAttach
                 /\ IdleConnect /\ IdleDevlist /\ IdleCodec
NextQuery == query_import_device
SpecAttach == InitQuery /\ [][NextQuery]_vars

\* The devlist flow: one exchange with one remote.
InitList == IdleDetach /\ IdleHeader /\ IdleAttach
               /\ IdleConnect /\ InitDevlist /\ IdleCodec
NextList == listRemoteDevices
SpecDevlist == InitList /\ [][NextList]_vars

\* The wire codec: one structure sent and read back.
InitWire == IdleDetach /\ IdleHeader /\ IdleAttach
               /\ IdleConnect /\ IdleDevlist /\ InitCodec
NextWire == send \/ write_following \/ recv
SpecCodec == InitWire /\ [][NextWire]_vars

\* The transport setup: one call of connect.
InitTransport == IdleDetach /\ IdleHeader /\ IdleAttach
                    /\ InitConnect /\ IdleDevlist /\ IdleCodec
NextTransport == connect
SpecConnect == InitTransport /\ [][NextTransport]_vars

-----------------------------------------------------------------------------
(* Properties of the detach flow, stated on what an invocation observed    *)
(* (its snapshot, its calls) and on what it returned.                      *)

\* The positions in the invocation's trace of its calls of `op`.
CallsOf(self, op) == {k \in DOMAIN trace[self] : trace[self][k].op = op}

\* The invocation has read the port table (and so has run validate on it).
HasRead(self) == CallsOf(self, "imported_devices") # {}

\* The entries of the invocation's snapshot for the port it was asked for.
Entries(self) ==
    {i \in DOMAIN snapshot[self] : snapshot[self][i].port = arg[self]}

Absent(self) == HasRead(self) /\ Entries(self) = {}

Available(self) ==
    /\ HasRead(self)
    /\ \E i \in Entries(self) : snapshot[self][i].status = "PortAvailable"

Attached(self) ==
    /\ HasRead(self)
    /\ Entries(self) # {}
    /\ \A i \in Entries(self) : snapshot[self][i].status # "PortAvailable"

PortStateError(self) ==
    result[self].tag \in {"InvalidPort", "PortAlreadyDetached"}

\* C1: a port that no entry of the snapshot has is refused with InvalidPort
\* carrying the port and the number of entries of the snapshot as read.
C1_AbsentPortIsInvalid ==
    \A self \in Procs :
        Absent(self) =>
            /\ pc[self] = "done"
            /\ result[self] = InvalidPort(arg[self], Len(snapshot[self]))

\* An absent port refused against a snapshot that is not empty.
C1_Witness ==
    \E self \in Procs :
        /\ Absent(self)
        /\ Len(snapshot[self]) >= 1
        /\ result[self].tag = "InvalidPort"

\* C2: a port whose entry is PortAvailable is refused with
\* PortAlreadyDetached(port); with any other status of the entry validation
\* succeeds: no port-state error is returned and the flow goes on.
C2_AvailableIsAlreadyDetached ==
    \A self \in Procs :
        /\ Available(self) =>
            /\ pc[self] = "done"
            /\ result[self] = PortAlreadyDetached(arg[self])
        /\ Attached(self) =>
            /\ ~PortStateError(self)
            /\ pc[self] \in {"remove_file", "remove_dir", "detach", "done"}
            /\ CallsOf(self, "try_open") = {1}

\* One invocation refused on an available port while another has passed
\* validation on a port in the PortError state.
C2_Witness ==
    \E self, other \in Procs :
        /\ Available(self)
        /\ result[self].tag = "PortAlreadyDetached"
        /\ Attached(other)
        /\ \E i \in Entries(other) : snapshot[other][i].status = "PortError"
        /\ pc[other] = "remove_file"

\* C3: an invocation on an attached port reads the port table once and never
\* again, calls the driver's detach at most once, and when it returns it has
\* called it exactly once, with its port, after the read.
C3_DetachOnceAfterOneRead ==
    \A self \in Procs :
        /\ Cardinality(CallsOf(self, "imported_devices")) <= 1
        /\ Cardinality(CallsOf(self, "try_detach_dev")) <= 1
        /\ (Attached(self) /\ pc[self] = "done") =>
            /\ Cardinality(CallsOf(self, "imported_devices")) = 1
            /\ Cardinality(CallsOf(self, "try_detach_dev")) = 1
            /\ \A d \in CallsOf(self, "try_detach_dev") :
                /\ trace[self][d].port = arg[self]
                /\ \A r \in CallsOf(self, "imported_devices") : r < d

\* An invocation on an attached port has returned after the driver rejected
\* its detach.
C3_Witness ==
    \E self \in Procs :
        /\ Attached(self)
        /\ pc[self] = "done"
        /\ result[self] = DriverError("try_detach_dev")

\* C4: when the port is absent from the snapshot or available in it, the
\* invocation returns the port-state error having called neither remove_file
\* nor remove_dir nor the driver's detach.
C4_NoEffectWhenValidationFails ==
    \A self \in Procs :
        (Absent(self) \/ Available(self)) =>
            /\ pc[self] = "done"
            /\ PortStateError(self)
            /\ CallsOf(self, "remove_file") = {}
            /\ CallsOf(self, "remove_dir") = {}
            /\ CallsOf(self, "try_detach_dev") = {}

\* Both invocations were refused, one for each reason, while the state file of
\* the refused port and the state directory exist.
C4_Witness ==
    \E self, other \in Procs :
        /\ Absent(self)
        /\ result[self].tag = "InvalidPort"
        /\ Available(other)
        /\ result[other].tag = "PortAlreadyDetached"
        /\ arg[other] \in stateFiles
        /\ stateDir

\* C5: past validation the invocation calls remove_file on its port and then
\* remove_dir, whatever either returned, then the driver's detach; what it
\* returns is decided by the driver's detach alone.
C5_CleanupAlwaysTriedResultFromDriver ==
    \A self \in Procs :
        (Attached(self) /\ pc[self] \in {"detach", "done"}) =>
            /\ Len(trace[self]) >= 4
            /\ trace[self][3].op = "remove_file"
            /\ trace[self][3].port = arg[self]
            /\ trace[self][4].op = "remove_dir"
            /\ pc[self] = "done" =>
                /\ Len(trace[self]) = 5
                /\ trace[self][5].op = "try_detach_dev"
                /\ result[self] = IF trace[self][5].ok
                                  THEN Ok
                                  ELSE DriverError("try_detach_dev")

\* Two invocations returned success: the one after both removals failed, the
\* other after both succeeded.
C5_Witness ==
    \E self, other \in Procs :
        /\ pc[self] = "done" /\ result[self] = Ok
        /\ ~trace[self][3].ok /\ ~trace[self][4].ok
        /\ pc[other] = "done" /\ result[other] = Ok
        /\ trace[other][3].ok /\ trace[other][4].ok

-----------------------------------------------------------------------------
(* Properties of OpCommon::validate, stated on the header and the expected *)
(* code it was called with and on what it returned.                        *)

Returned == validated # NoResult

\* The caller expects one code and the header carries another.
CodeMismatch == expected # OP_UNSPEC /\ header.code # expected

\* C6: a header of another version than VERSION is refused with
\* VersionMismatch(header.version), whatever its code and status and whatever
\* the expected code, the wildcard included.
C6_OtherVersionIsMismatch ==
    (Returned /\ header.version # VERSION) =>
        validated = VersionMismatch(header.version)

\* A header of another version refused although the caller expected any code
\* and the remote claimed success.
C6_Witness ==
    /\ header.version # VERSION
    /\ expected = OP_UNSPEC
    /\ header.status = "Success"
    /\ validated.tag = "VersionMismatch"

\* C7: with the supported version, a concrete expected code that differs from
\* the header's yields the status Unexpected, whatever status the header has.
C7_CodeMismatchIsUnexpected ==
    (Returned /\ header.version = VERSION /\ CodeMismatch) =>
        validated = OkStatus("Unexpected")

\* A devlist reply claiming success, validated against the import reply code.
C7_Witness ==
    /\ header = [version |-> VERSION, code |-> OP_REP_DEVLIST,
                 status |-> "Success"]
    /\ expected = OP_REP_IMPORT
    /\ validated = OkStatus("Unexpected")

\* C8, as stated: with the supported version the value returned is the
\* header's status exactly when the expected code is OP_UNSPEC or equals the
\* header's code.
C8_StatusKeptExactlyWhenCodeAccepted ==
    (Returned /\ header.version = VERSION) =>
        (validated = OkStatus(header.status) <=> ~CodeMismatch)

\* C8, amended: with the supported version validate never fails; it returns
\* the header's status whenever the expected code is OP_UNSPEC or equals the
\* header's code, and otherwise returns a value equal to the header's status
\* only when that status is Unexpected already.
C8_StatusKeptWhenCodeAccepted ==
    (Returned /\ header.version = VERSION) =>
        /\ validated.tag = "Ok"
        /\ validated = OkStatus(header.status)
            <=> (~CodeMismatch \/ header.status = "Unexpected")

\* The wildcard: a header whose code is not OP_UNSPEC keeps its status.
C8_Witness ==
    /\ header = [version |-> VERSION, code |-> OP_REP_IMPORT,
                 status |-> "DevBusy"]
    /\ expected = OP_UNSPEC
    /\ validated = OkStatus("DevBusy")

-----------------------------------------------------------------------------
(* Properties of query_import_device *)

\* C10, as stated: a bus id that does not fit the buffer fails at the
\* construction of the request with nothing written to the socket, and the
\* caller gets an error.
C10_OverflowFailsBeforeAnyWrite ==
    request = Overflow => (wire = <<>> /\ outcome = "Err")

-----------------------------------------------------------------------------
(* Further properties of the detach flow *)

\* The snapshot lists every slot of the controller: its i-th entry is the
\* slot i - 1, so that its length is the number of ports.
ListsEverySlot(idevs) == \A i \in DOMAIN idevs : idevs[i].port = i - 1

Opened(self) ==
    \E k \in CallsOf(self, "try_open") : trace[self][k].ok
DetachSucceeded(self) ==
    \E k \in CallsOf(self, "try_detach_dev") : trace[self][k].ok
DetachFailed(self) ==
    \E k \in CallsOf(self, "try_detach_dev") : ~trace[self][k].ok

\* C17: an invocation returns success exactly when the driver opened, the
\* port validated and the driver's detach succeeded; when the driver's
\* detach failed it returns the driver's error, never a port-state error.
C17_SuccessIffDriverDetached ==
    \A self \in Procs :
        pc[self] = "done" =>
            /\ result[self] = Ok
                <=> (Opened(self) /\ Attached(self) /\ DetachSucceeded(self))
            /\ DetachFailed(self) =>
                result[self] = DriverError("try_detach_dev")

\* One invocation returned success and the other the driver's detach error.
C17_Witness ==
    \E self, other \in Procs :
        /\ pc[self] = "done" /\ result[self] = Ok
        /\ pc[other] = "done" /\ DetachFailed(other)
        /\ result[other] = DriverError("try_detach_dev")

\* The port is available in the driver's table now.
AvailableNow(port) ==
    \E i \in DOMAIN vhci :
        vhci[i].port = port /\ vhci[i].status = "PortAvailable"

\* C18: no invocation ever waits for the other: whatever the other has done,
\* an invocation that has not returned can take its next step, the driver's
\* detach on a port that has become available since its snapshot included;
\* and what it returns after that call is what the driver answered.
C18_NoLockBetweenInvocations ==
    \A self \in Procs :
        /\ pc[self] # "done" => ENABLED detach_port(self)
        /\ (pc[self] = "done" /\ DetachFailed(self)) =>
            result[self] = DriverError("try_detach_dev")
        /\ (pc[self] = "done" /\ DetachSucceeded(self)) => result[self] = Ok

\* Both invocations saw the same port attached and passed validation; one has
\* detached it, and the other is about to call the driver's detach on the
\* port, which is available by now.
C18_Witness ==
    \E self, other \in Procs :
        /\ self # other
        /\ arg[self] = arg[other]
        /\ Attached(self) /\ Attached(other)
        /\ pc[self] = "done" /\ result[self] = Ok
        /\ pc[other] = "detach"
        /\ AvailableNow(arg[other])

\* C19: when try_open fails the invocation returns that error having read no
\* snapshot and having called neither remove_file nor remove_dir nor the
\* driver's detach.
C19_OpenFailureStopsEverything ==
    \A self \in Procs :
        (\E k \in CallsOf(self, "try_open") : ~trace[self][k].ok) =>
            /\ pc[self] = "done"
            /\ result[self] = DriverError("try_open")
            /\ Len(trace[self]) = 1
            /\ snapshot[self] = <<>>

\* The open failed for one invocation although the table holds its port,
\* attached, and the state file of the port exists.
C19_Witness ==
    \E self \in Procs :
        /\ result[self] = DriverError("try_open")
        /\ \E i \in DOMAIN vhci :
            vhci[i].port = arg[self] /\ vhci[i].status = "PortInUse"
        /\ arg[self] \in stateFiles

\* C20: the driver's detach is called only after remove_file and remove_dir
\* have been called, so an invocation whose detach failed after its
\* remove_file succeeded returns the error with the state file gone.
C20_CleanupBeforeDetach ==
    \A self \in Procs :
        /\ \A d \in CallsOf(self, "try_detach_dev") :
            /\ \E f \in CallsOf(self, "remove_file") : f < d
            /\ \E r \in CallsOf(self, "remove_dir") : r < d
        /\ (DetachFailed(self) /\ trace[self][3].ok) =>
            /\ result[self] = DriverError("try_detach_dev")
            /\ arg[self] \notin stateFiles

\* The detach failed, the port is still occupied in the driver's table, and
\* the state file that existed and the directory have been removed.
C20_Witness ==
    \E self \in Procs :
        /\ result[self] = DriverError("try_detach_dev")
        /\ trace[self][3].ok /\ trace[self][4].ok
        /\ ~stateDir
        /\ \E i \in DOMAIN vhci :
            vhci[i].port = arg[self] /\ vhci[i].status # "PortAvailable"

-----------------------------------------------------------------------------
(* Further properties of query_import_device *)

\* The import request header, as it stands on the socket once sent.
RequestHeader ==
    Message([version |-> VERSION, code |-> OP_REQ_IMPORT,
             status |-> "Success"], "sent")

\* The call has got past both sends, to the point where the reply is to be
\* read (the todo!() of the code).
PastBothSends ==
    apc = "todo" \/ (apc = "done" /\ outcome = "panic" /\ request # Overflow)

\* C11: the socket holds the header first and the request after it, the
\* request only after the whole header; after a failed send of the header
\* nothing more is written; and the reply is due only once both are sent
\* whole.
C11_HeaderThenRequestThenReply ==
    /\ Len(wire) <= 2
    /\ Len(wire) >= 1 => wire[1].value = RequestHeader.value
    /\ Len(wire) = 2 =>
        /\ wire[1] = RequestHeader
        /\ wire[2].value = request
        /\ wire[2].value = Buffer_try_from(bus_id)
    /\ (apc = "done" /\ outcome = "Err" /\ request = NoRequest) =>
        /\ Len(wire) <= 1
        /\ \A i \in DOMAIN wire : ~wire[i].complete
    /\ PastBothSends =>
        /\ Len(wire) = 2
        /\ wire[1].complete /\ wire[2].complete

\* The send of the header failed part of the way: the call returned the error
\* and the socket holds that part of the header and nothing else.
C11_Witness ==
    /\ apc = "done"
    /\ outcome = "Err"
    /\ request = NoRequest
    /\ Len(wire) = 1
    /\ ~wire[1].complete

\* C12: when the caller asked for "1-1", both sends went through and the
\* remote answers success with the device "1-2", the call ends with
\* BusIdMismatch (of that bus id).
C12_OtherDeviceIsBusIdMismatch ==
    ( /\ bus_id = <<49, 45, 49>>
      /\ inbound = ImportReply("Success", <<49, 45, 50>>)
      /\ Len(wire) = 2 /\ wire[2].complete
      /\ apc = "done" )
        => outcome = "BusIdMismatch"

-----------------------------------------------------------------------------
(* Properties of connect *)

\* C14: connect returns a connection only with TCP_NODELAY and SO_KEEPALIVE
\* both set on it; when no address accepts or either option cannot be set it
\* returns an error, and it returns nothing else.
C14_ConnectionOnlyFullyConfigured ==
    /\ connection.tag = "Ok" =>
        /\ cpc = "done"
        /\ connection.socket = sock
        /\ sock.tag = "TcpStream" /\ sock.nodelay /\ sock.keepalive
    /\ cpc = "done" =>
        /\ connection.tag \in {"Ok", "Err"}
        /\ (sock = NoSocket \/ ~sock.nodelay \/ ~sock.keepalive) =>
            connection.tag = "Err"

\* The second address accepted and no-delay was set, but setsockopt failed
\* for keep-alive: connect returned the error, not the half-configured socket.
C14_Witness ==
    /\ cpc = "done"
    /\ sock.tag = "TcpStream" /\ sock.peer = 2
    /\ sock.nodelay /\ ~sock.keepalive
    /\ connection = IoError("ENOPROTOOPT")

-----------------------------------------------------------------------------
(* Properties of the devlist flow *)

\* The remote answers with this header, announces n devices and sends at
\* least as many descriptors.
Answers(code, n) ==
    /\ lstream[1].value = [version |-> VERSION, code |-> code,
                           status |-> "Success"]
    /\ lstream[2].value.ndev = n
    /\ Len(lstream) >= 2 + n

\* C13, as stated: a remote answering {273, 0x8005, Success}, a count of 2
\* and two descriptors gets a list of two devices after four reads.
C13_ReplyWithRequestCodeLists ==
    (lpc = "done" /\ listed # IoError("BrokenPipe") /\ Answers(32773, 2)) =>
        /\ listed = OkList(<<1, 2>>)
        /\ lreads = 4

\* C13, amended: a remote answering {273, 0x0005, Success}, a count of n and
\* n descriptors or more gets the list of the first n after 2 + n reads, and
\* nothing is read after that; a remote answering with the code 0x8005 gets
\* the Unexpected status as an error after the one read of the header.
C13_ReplyWithReplyCodeLists ==
    /\ \A n \in 0..MaxDevs :
        (Answers(5, n) /\ lpc # "idle") =>
            /\ lreads <= 2 + n
            /\ (lpc = "done" /\ listed # IoError("BrokenPipe")) =>
                /\ listed = OkList([i \in 1..n |-> i])
                /\ lreads = 2 + n
    /\ \A n \in 0..MaxDevs :
        (Answers(32773, n) /\ lpc = "done"
                /\ listed # IoError("BrokenPipe")) =>
            /\ listed = StatusError("Unexpected")
            /\ lreads = 1

\* The remote answered {273, 0x0005, Success}, announced two devices and sent
\* three descriptors: the flow returned the first two and left the third.
C13_Witness ==
    /\ lpc = "done"
    /\ Answers(5, 2)
    /\ Len(lstream) = 5
    /\ listed = OkList(<<1, 2>>)
    /\ lreads = 4

-----------------------------------------------------------------------------
(* Properties of the wire codec *)

\* The unsigned integer that `width` bytes from position `at` spell with the
\* most significant byte first.
BigEndianAt(bytes, at, width) ==
    IF width = 2 THEN bytes[at] * 256 + bytes[at + 1]
    ELSE ((bytes[at] * 256 + bytes[at + 1]) * 256 + bytes[at + 2]) * 256
            + bytes[at + 3]

\* The number of bytes of each structure: the sum of its fields' widths.
WireSize(type) ==
    CASE type = "OpCommon" -> 2 + 2 + 2
      [] type = "OpImportRequest" -> SYSFS_BUS_ID_SIZE
      [] type = "OpImportReply" -> SYSFS_BUS_ID_SIZE + 4 + 2 + 1
      [] type = "OpDevlistReply" -> 4

\* The stream holds the structure sent, each integer at its fixed place with
\* its most significant byte first.
LaidOutBigEndian ==
    CASE cvalue.type = "OpCommon" ->
            /\ BigEndianAt(cstream, 1, 2) = cvalue.body.version
            /\ BigEndianAt(cstream, 3, 2) = cvalue.body.code
      [] cvalue.type = "OpImportRequest" ->
            \A i \in 1..SYSFS_BUS_ID_SIZE :
                AsI8(cstream[i]) = cvalue.body.bus_id[i]
      [] cvalue.type = "OpImportReply" ->
            /\ BigEndianAt(cstream, SYSFS_BUS_ID_SIZE + 1, 4)
                    = cvalue.body.udev.speed
            /\ BigEndianAt(cstream, SYSFS_BUS_ID_SIZE + 5, 2)
                    = cvalue.body.udev.idVendor
      [] cvalue.type = "OpDevlistReply" ->
            BigEndianAt(cstream, 1, 4) = cvalue.body.ndev

\* C15: a structure sent with send and read back with recv comes back equal
\* to the original; on the stream every integer of it is big-endian at a
\* fixed width, the structure taking the sum of its fields' widths; and recv
\* takes exactly these bytes, so that what follows them in the stream is
\* still there to be read.
C15_RoundTripBigEndianExactBytes ==
    /\ wpc = "write" =>
        /\ Len(cstream) = WireSize(cvalue.type)
        /\ LaidOutBigEndian
    /\ wpc = "recv" =>
        /\ Len(cstream) = WireSize(cvalue.type) + Len(ctrail)
        /\ LaidOutBigEndian
    /\ (wpc = "done" /\ creceived # IoError("BrokenPipe")) =>
        /\ creceived = OkValue(cvalue)
        /\ cstream = ctrail

\* A device count of four different bytes was sent and read back with four
\* more bytes behind it, which are what is left in the stream.
C15_Witness ==
    /\ wpc = "done"
    /\ cvalue = Typed("OpDevlistReply", [ndev |-> 16909060])
    /\ creceived = OkValue(cvalue)
    /\ ctrail = <<1, 17, 0, 5>>
    /\ cstream = ctrail

=============================================================================
